---- MODULE Spec2Model ----
(***************************************************************************)
(* A model of instagram_insights: the shared login helper                  *)
(* (instagram_setup.py), the giveaway pipeline (instagram_giveaway.py) and *)
(* the account-performance pipeline (instagram_insights.py).               *)
(*                                                                         *)
(* Python values are modelled as follows.  Strings are strings; the value  *)
(* None is the string PyNone, which no username, password or id equals.    *)
(* Lists are sequences.  A float is the exact rational <<num, den>> it     *)
(* approximates (den = 0 stands for the inf/nan of a division by zero).    *)
(* A call of the external client library is a nondeterministic choice over *)
(* the responses the platform can give.                                    *)
(***************************************************************************)
EXTENDS Integers, Sequences, FiniteSets, TLC

VARIABLES
    pc,             \* position of the running pipeline / driver
    environ,        \* os.environ restricted to the IG_PASSWORD_* keys
    user_id,        \* client.user_id: PyNone until a login succeeded
    calls,          \* number of maybe_login calls made in this process
    prompts,        \* history: per username, the answers the password prompt got
    owner,          \* history: per environment key, the username its value was given for
    last,           \* history: what the most recent maybe_login call did
    followers, likers, commenters,  \* the gathered username lists
    usernames, start_time, threads, \* the arguments and response of get_mentioners
    mentioners,     \* get_mentioners' return value
    full_list,      \* create_giveaway_list's return value
    posts,          \* the insight responses of the gathered posts
    follower_count, \* client.user_info_by_username(username).follower_count
    result          \* what the pipeline returned or raised

loginVars    == <<environ, user_id, calls, prompts, owner, last>>
giveawayVars == <<followers, likers, commenters, usernames, start_time, threads,
                  mentioners, full_list>>
insightVars  == <<posts, follower_count>>
vars == <<pc, loginVars, giveawayVars, insightVars, result>>

PyNone == "None"

(***************************************************************************)
(* Bounds of the model.                                                    *)
(***************************************************************************)
MaxCalls == 2       \* maybe_login calls per process

(***************************************************************************)
(* Generic helpers.                                                        *)
(***************************************************************************)
SeqsUpTo(S, n) == UNION {[1..k -> S] : k \in 0..n}

Range(s) == {s[i] : i \in 1..Len(s)}

\* Python truthiness of a str-or-None value: None and "" are falsy.
Truthy(v) == v # PyNone /\ v # ""

(***************************************************************************)
(* instagram_setup.py: the login helper                                    *)
(***************************************************************************)
Accounts  == {"alice", "bob"}
Passwords == {"", "pw1", "pw2"}       \* what getpass("Password: ") can return
Codes     == {"123456"}               \* what getpass("2FA code: ") can return

\* client.user_id after a successful login of `username`.
UserIdOf(username) == "id:" \o username

\* Mutant of EnvKey: the key does not depend on the username.
EnvKey_Shared(username) == "IG_PASSWORD_"

\* f"IG_PASSWORD_{username}"
EnvKey(username) == "IG_PASSWORD_" \o username

EnvKeys == {EnvKey(u) : u \in Accounts}

\* os.environ.get(key)
EnvGet(env, key) == IF key \in DOMAIN env THEN env[key] ELSE PyNone

\* os.environ[key] = value
EnvSet(env, key, value) ==
    [k \in DOMAIN env \cup {key} |-> IF k = key THEN value ELSE env[k]]

\* The outcomes of client.insights_account(): it asserts self.user_id with
\* the message "Login required", and can fail in other ways.
Returned(v)  == [kind |-> "return", value |-> v]
Raised(t, m) == [kind |-> "raise", type |-> t, msg |-> m]

InsightsAccountOutcomes(uid) ==
    (IF uid # PyNone THEN {Returned("account_insights")}
                     ELSE {Raised("AssertionError", "Login required")})
    \cup {Raised("AssertionError", "Expecting value"),
          Raised("ClientError", "Login required"),
          Raised("ClientError", "feedback_required")}

\* check_login_status(client), given the outcome of client.insights_account().
\* An AssertionError with another message is caught and the function falls
\* off its end, returning None; any other exception propagates.
check_login_status(outcome) ==
    IF outcome.kind = "return" THEN Returned("True")
    ELSE IF outcome.type = "AssertionError"
         THEN IF outcome.msg = "Login required" THEN Returned("False")
                                                ELSE Returned(PyNone)
         ELSE outcome

\* Mutant of AlreadyLoggedIn: refresh_login is ignored.
AlreadyLoggedIn_IgnoreRefresh(is_logged_in, refresh_login) ==
    is_logged_in = "True"

\* `is_logged_in and not refresh_login`: the early return of maybe_login.
AlreadyLoggedIn(is_logged_in, refresh_login) ==
    is_logged_in = "True" /\ ~refresh_login

NoCall == [username |-> PyNone, twofactor |-> FALSE, refresh_login |-> FALSE,
           check |-> Returned(PyNone), status |-> Returned(PyNone),
           env_before |-> << >>, password_prompt |-> FALSE,
           code_prompt |-> FALSE, login_called |-> FALSE,
           login_password |-> PyNone, login_code |-> PyNone,
           password_of |-> PyNone, outcome |-> "none"]

\* maybe_login(client, username, twofactor, refresh_login), as one step.
\* `outcome` is what client.insights_account() does, `typed` what the user
\* answers to the password prompt, `code` to the 2FA prompt and `ok` whether
\* client.login succeeds.
maybe_login(username, twofactor, refresh_login, outcome, typed, code, ok) ==
    LET status == check_login_status(outcome)
        stored == EnvGet(environ, EnvKey(username))
        ask    == ~Truthy(stored)
        password == IF ask THEN typed ELSE stored
        verification_code == IF twofactor THEN code ELSE PyNone
        call == [NoCall EXCEPT !.username = username,
                               !.twofactor = twofactor,
                               !.refresh_login = refresh_login,
                               !.check = outcome,
                               !.status = status,
                               !.env_before = environ]
    IN  /\ calls' = calls + 1
        /\ IF status.kind = "raise"
           THEN /\ last' = [call EXCEPT !.outcome = "raised"]
                /\ UNCHANGED <<environ, user_id, prompts, owner>>
           ELSE IF AlreadyLoggedIn(status.value, refresh_login)
           THEN /\ last' = [call EXCEPT !.outcome = "returned"]
                /\ UNCHANGED <<environ, user_id, prompts, owner>>
           ELSE /\ environ' = IF ask THEN EnvSet(environ, EnvKey(username), typed)
                                     ELSE environ
                /\ prompts' = IF ask
                              THEN [prompts EXCEPT ![username] = Append(@, typed)]
                              ELSE prompts
                /\ owner' = IF ask THEN EnvSet(owner, EnvKey(username), username)
                                   ELSE owner
                /\ user_id' = IF ok THEN UserIdOf(username) ELSE user_id
                /\ last' = [call EXCEPT !.password_prompt = ask,
                                        !.code_prompt = twofactor,
                                        !.login_called = TRUE,
                                        !.login_password = password,
                                        !.login_code = verification_code,
                                        !.password_of =
                                            IF ask THEN username
                                            ELSE owner[EnvKey(username)],
                                        !.outcome = IF ok THEN "returned"
                                                         ELSE "raised"]

\* Any call maybe_login can receive, with any behaviour of the platform and
\* of the user at the prompts.
MaybeLoginCall ==
    \E username \in Accounts, twofactor \in BOOLEAN, refresh_login \in BOOLEAN,
       outcome \in InsightsAccountOutcomes(user_id),
       typed \in Passwords, code \in Codes, ok \in BOOLEAN :
        maybe_login(username, twofactor, refresh_login, outcome, typed, code, ok)

\* The environments a process can start with: each IG_PASSWORD_* key unset,
\* or exported with some value.
InitialEnvirons ==
    UNION {[K -> {"", "pw1"}] : K \in SUBSET EnvKeys}

LoginInit ==
    /\ environ \in InitialEnvirons
    /\ user_id = PyNone
    /\ calls = 0
    /\ prompts = [u \in Accounts |-> << >>]
    /\ owner = [k \in DOMAIN environ |-> CHOOSE u \in Accounts : EnvKey(u) = k]
    /\ last = NoCall

IdleGiveaway ==
    /\ followers = << >> /\ likers = << >> /\ commenters = << >>
    /\ usernames = {} /\ start_time = 0 /\ threads = << >>
    /\ mentioners = << >> /\ full_list = << >>

IdleInsights ==
    /\ posts = << >> /\ follower_count = 0

NoResult == [kind |-> "none"]

(***************************************************************************)
(* SpecLogin: one process making a sequence of maybe_login calls.          *)
(***************************************************************************)
InitLogin ==
    /\ pc = "login"
    /\ LoginInit
    /\ IdleGiveaway
    /\ IdleInsights
    /\ result = NoResult

DoMaybeLogin ==
    /\ pc = "login"
    /\ calls < MaxCalls
    /\ MaybeLoginCall
    /\ UNCHANGED <<pc, giveawayVars, insightVars, result>>

NextLogin == DoMaybeLogin

SpecLogin == InitLogin /\ [][NextLogin]_vars

(***************************************************************************)
(* instagram_giveaway.py                                                   *)
(***************************************************************************)
Users == {"ann", "ben"}         \* usernames of other accounts

\* A message's reel_share: None, or a dict with a type and the mentioned user.
NoShare == [type |-> PyNone, mentioned_user_id |-> PyNone]

ReelShares ==
    {NoShare,
     [type |-> "mention",  mentioned_user_id |-> UserIdOf("alice")],
     [type |-> "mention",  mentioned_user_id |-> UserIdOf("bob")],
     [type |-> "reaction", mentioned_user_id |-> UserIdOf("alice")]}

\* Message timestamps and post times; only their order matters.
Times     == {0, 1, 2}
PostTimes == {1}

Messages == [timestamp : Times, reel_share : ReelShares]

\* thread.users: no user (a multi-recipient story tag), one, or several.
ThreadUserLists == {<< >>, <<"ann">>, <<"ben", "ann">>}

Threads(n) == [users : ThreadUserLists, messages : SeqsUpTo(Messages, n)]

\* Mutant of WithUsers: userless threads are kept.
WithUsers_KeepAll(ts) == ts

\* threads = [t for t in threads if t.users]
WithUsers(ts) == SelectSeq(ts, LAMBDA t : t.users # << >>)

\* Mutant of IsMention: every reel_share counts, whatever its type.
IsMention_AnyType(share) == TRUE

\* m.reel_share["type"] == "mention"
IsMention(share) == share.type = "mention"

\* The body of the loop of get_mentioners: whether `thread` is appended.
MentionsUser(thread, start, uid) ==
    LET messages == thread.messages
        messages_after_post ==
            SelectSeq(messages, LAMBDA m : m.timestamp > start)
        mentions_or_reactions ==
            SelectSeq(messages, LAMBDA m : m.reel_share # NoShare)
        mentions ==
            SelectSeq([i \in 1..Len(mentions_or_reactions) |->
                          mentions_or_reactions[i].reel_share],
                      IsMention)
        mentions_user ==
            SelectSeq(mentions, LAMBDA m : m.mentioned_user_id = uid)
    IN  mentions_user # << >>

RECURSIVE MentionerLoop(_, _, _)
MentionerLoop(relevant_threads, start, uid) ==
    IF relevant_threads = << >> THEN << >>
    ELSE LET thread == Head(relevant_threads)
             rest == MentionerLoop(Tail(relevant_threads), start, uid)
         IN  IF MentionsUser(thread, start, uid)
             THEN <<thread.users[1]>> \o rest
             ELSE rest

\* get_mentioners(client, usernames, start_time): t.users[0] of a thread
\* without users raises IndexError.
get_mentioners(uid, names, start, inbox) ==
    LET ts == WithUsers(inbox)
    IN  IF \E i \in 1..Len(ts) : ts[i].users = << >>
        THEN Raised("IndexError", "list index out of range")
        ELSE LET relevant_threads ==
                     SelectSeq(ts, LAMBDA t : t.users[1] \in names)
             IN  Returned(MentionerLoop(relevant_threads, start, uid))

\* list(s) of a set s: the elements once each, in an order Python chooses.
ListsOf(S) == {s \in [1..Cardinality(S) -> S] : Range(s) = S}

\* Mutant of create_giveaway_list: the commenters are filtered but not
\* deduplicated.
create_giveaway_list_NoDedup(fs, ls, cs, ms) ==
    LET followed_and_liked == Range(fs) \cap Range(ls)
        commented == SelectSeq(cs, LAMBDA u : u \in followed_and_liked)
        mentioned == Range(ms) \cap followed_and_liked
    IN  {a \o commented \o c : a \in ListsOf(followed_and_liked),
                                c \in ListsOf(mentioned)}

\* create_giveaway_list(followers, likers, commenters, mentioners): the lists
\* it can return.
create_giveaway_list(fs, ls, cs, ms) ==
    LET followed_and_liked == Range(fs) \cap Range(ls)
        commented == Range(cs) \cap followed_and_liked
        mentioned == Range(ms) \cap followed_and_liked
    IN  {a \o b \o c : a \in ListsOf(followed_and_liked),
                       b \in ListsOf(commented),
                       c \in ListsOf(mentioned)}

\* Mutant of random_choice: None for an empty sequence.
random_choice_NoneOnEmpty(seq) ==
    IF seq = << >> THEN {Returned(PyNone)}
    ELSE {Returned(seq[i]) : i \in 1..Len(seq)}

\* random.choice(seq): IndexError on an empty sequence.
random_choice(seq) ==
    IF seq = << >>
    THEN {Raised("IndexError", "Cannot choose from an empty sequence")}
    ELSE {Returned(seq[i]) : i \in 1..Len(seq)}

(***************************************************************************)
(* SpecMentioners: get_mentioners on every bounded inbox.                  *)
(***************************************************************************)
MaxThreads == 1     \* threads in the inbox
MaxMsgs    == 1     \* messages per thread

Inboxes == SeqsUpTo(Threads(MaxMsgs), MaxThreads)

IdleLogin ==
    /\ environ = << >> /\ calls = 0 /\ last = NoCall
    /\ prompts = [u \in Accounts |-> << >>] /\ owner = << >>

InitMentioners ==
    /\ pc = "get_mentioners"
    /\ IdleLogin
    /\ user_id = UserIdOf("alice")
    /\ followers = << >> /\ likers = << >> /\ commenters = << >>
    /\ usernames \in SUBSET Users
    /\ start_time \in PostTimes
    /\ threads \in Inboxes
    /\ mentioners = << >>
    /\ full_list = << >>
    /\ IdleInsights
    /\ result = NoResult

CallGetMentioners ==
    /\ pc = "get_mentioners"
    /\ LET r == get_mentioners(user_id, usernames, start_time, threads)
       IN  /\ result' = r
           /\ mentioners' = IF r.kind = "return" THEN r.value ELSE << >>
    /\ pc' = "done"
    /\ UNCHANGED <<loginVars, followers, likers, commenters, usernames,
                   start_time, threads, full_list, insightVars>>

NextMentioners == CallGetMentioners

SpecMentioners == InitMentioners /\ [][NextMentioners]_vars

(***************************************************************************)
(* SpecList: create_giveaway_list on every bounded quadruple of lists.     *)
(***************************************************************************)
MaxLen == 2         \* length of a gathered username list

UserLists == SeqsUpTo(Users, MaxLen)

InitList ==
    /\ pc = "create_giveaway_list"
    /\ IdleLogin
    /\ user_id = UserIdOf("alice")
    /\ followers \in UserLists
    /\ likers \in UserLists
    /\ commenters \in UserLists
    /\ mentioners \in UserLists
    /\ usernames = {} /\ start_time = 0 /\ threads = << >>
    /\ full_list = << >>
    /\ IdleInsights
    /\ result = NoResult

CallCreateGiveawayList ==
    /\ pc = "create_giveaway_list"
    /\ full_list' \in create_giveaway_list(followers, likers, commenters, mentioners)
    /\ pc' = "done"
    /\ UNCHANGED <<loginVars, followers, likers, commenters, usernames,
                   start_time, threads, mentioners, insightVars, result>>

NextList == CallCreateGiveawayList

SpecList == InitList /\ [][NextList]_vars

(***************************************************************************)
(* The first step of both pipelines: maybe_login with the default flags    *)
(* (twofactor = True, refresh_login = False) for the account "alice",      *)
(* whose password is exported; the client is fresh or from an earlier      *)
(* session.                                                                *)
(***************************************************************************)
PipelineLoginInit ==
    /\ environ = [k \in {EnvKey("alice")} |-> "pw1"]
    /\ user_id \in {PyNone, UserIdOf("alice")}
    /\ calls = 0
    /\ prompts = [u \in Accounts |-> << >>]
    /\ owner = [k \in {EnvKey("alice")} |-> "alice"]
    /\ last = NoCall

PipelineLogin ==
    \E outcome \in InsightsAccountOutcomes(user_id),
       typed \in Passwords, code \in Codes, ok \in BOOLEAN :
        maybe_login("alice", TRUE, FALSE, outcome, typed, code, ok)

(***************************************************************************)
(* SpecMain: instagram_giveaway.main, one call, step by step.              *)
(***************************************************************************)
\* What the platform can answer to the three enumerations of main.
FollowerLists == {<<"ann">>, <<"ann", "ben">>}
LikerLists    == {<< >>, <<"ben", "ann">>}
CommentLists  == {<< >>, <<"alice", "ann", "ann">>}

InitMain ==
    /\ pc = "maybe_login"
    /\ PipelineLoginInit
    /\ IdleGiveaway
    /\ IdleInsights
    /\ result = NoResult

MainLogin ==
    /\ pc = "maybe_login"
    /\ PipelineLogin
    /\ IF last'.outcome = "raised"
       THEN /\ pc' = "done"
            /\ result' = Raised("LoginError", "maybe_login")
       ELSE /\ pc' = "get_follower_list"
            /\ UNCHANGED result
    /\ UNCHANGED <<giveawayVars, insightVars>>

\* get_follower_list(client)
MainGetFollowers ==
    /\ pc = "get_follower_list"
    /\ followers' \in FollowerLists
    /\ pc' = "get_post_likers"
    /\ UNCHANGED <<loginVars, likers, commenters, usernames, start_time,
                   threads, mentioners, full_list, insightVars, result>>

\* get_post_likers(client, post_url)
MainGetLikers ==
    /\ pc = "get_post_likers"
    /\ likers' \in LikerLists
    /\ pc' = "get_post_commenters"
    /\ UNCHANGED <<loginVars, followers, commenters, usernames, start_time,
                   threads, mentioners, full_list, insightVars, result>>

\* get_post_commenters(client, post_url): the comments of client.username
\* are excluded.
get_post_commenters(comment_users, client_username) ==
    SelectSeq(comment_users, LAMBDA u : u # client_username)

MainGetCommenters ==
    /\ pc = "get_post_commenters"
    /\ \E comment_users \in CommentLists :
          commenters' = get_post_commenters(comment_users, "alice")
    /\ pc' = "get_post_datetime"
    /\ UNCHANGED <<loginVars, followers, likers, usernames, start_time,
                   threads, mentioners, full_list, insightVars, result>>

\* get_post_datetime(client, post_url)
MainGetPostDatetime ==
    /\ pc = "get_post_datetime"
    /\ start_time' \in PostTimes
    /\ pc' = "get_mentioners"
    /\ UNCHANGED <<loginVars, followers, likers, commenters, usernames,
                   threads, mentioners, full_list, insightVars, result>>

\* get_mentioners(client, set(followers).intersection(set(likers)), post_datetime);
\* the inbox it fetches is local to the call and not kept.
MainGetMentioners ==
    /\ pc = "get_mentioners"
    /\ usernames' = Range(followers) \cap Range(likers)
    /\ \E inbox \in Inboxes :
          LET r == get_mentioners(user_id, usernames', start_time, inbox)
          IN  /\ IF r.kind = "return"
                 THEN /\ mentioners' = r.value
                      /\ pc' = "create_giveaway_list"
                      /\ UNCHANGED result
                 ELSE /\ mentioners' = << >>
                      /\ pc' = "done"
                      /\ result' = r
    /\ UNCHANGED <<loginVars, followers, likers, commenters, start_time,
                   threads, full_list, insightVars>>

MainCreateList ==
    /\ pc = "create_giveaway_list"
    /\ full_list' \in create_giveaway_list(followers, likers, commenters, mentioners)
    /\ pc' = "random_choice"
    /\ UNCHANGED <<loginVars, followers, likers, commenters, usernames,
                   start_time, threads, mentioners, insightVars, result>>

\* winner = random.choice(full_list), then the returned dict.
MainDraw ==
    /\ pc = "random_choice"
    /\ \E r \in random_choice(full_list) :
          result' = IF r.kind = "raise" THEN r
                    ELSE Returned([followers |-> followers, likers |-> likers,
                                   commenters |-> commenters,
                                   mentioners |-> mentioners,
                                   winner |-> r.value])
    /\ pc' = "done"
    /\ UNCHANGED <<loginVars, giveawayVars, insightVars>>

NextMain ==
    \/ MainLogin
    \/ MainGetFollowers
    \/ MainGetLikers
    \/ MainGetCommenters
    \/ MainGetPostDatetime
    \/ MainGetMentioners
    \/ MainCreateList
    \/ MainDraw

SpecMain == InitMain /\ [][NextMain]_vars

(***************************************************************************)
(* instagram_insights.py                                                   *)
(***************************************************************************)
MaxPosts     == 2   \* posts gathered (num_posts)
MaxCount     == 1   \* like_count and comment_count of a post
MaxFollowers == 2   \* follower_count of the account

\* comment_pct = 0.4 at the call of calculate_aggregate_insights, in tenths.
CommentPctTenths == 4

\* insights["inline_insights_node"]["metrics"]: empty for a post made before
\* the account became a professional account.
EmptyMetrics == [reach_count |-> 0, impression_count |-> 0,
                 share_nodes |-> << >>, empty |-> TRUE]

MetricsValues ==
    {EmptyMetrics,
     [reach_count |-> 1, impression_count |-> 3, share_nodes |-> <<1>>,
      empty |-> FALSE],
     [reach_count |-> 2, impression_count |-> 3, share_nodes |-> <<1, 2>>,
      empty |-> FALSE]}

\* What client.insights_media(post.pk) can return.
Insights == [metrics : MetricsValues, like_count : 0..MaxCount,
             comment_count : 0..MaxCount]

RECURSIVE SumSeq(_)
SumSeq(s) == IF s = << >> THEN 0 ELSE Head(s) + SumSeq(Tail(s))

Columns == {"reach", "impressions", "shares", "likes", "comments",
            "total_engagement"}

\* The None that get_post_insights returns for empty metrics.
NoInsights == [c \in Columns |-> 0] @@ [none |-> TRUE]

\* Mutant of get_post_insights: a row of zeros instead of None.
get_post_insights_ZeroRow(insights) ==
    LET metrics == insights.metrics
    IN  [reach |-> metrics.reach_count,
         impressions |-> metrics.impression_count,
         shares |-> SumSeq(metrics.share_nodes),
         likes |-> IF metrics.empty THEN 0 ELSE insights.like_count,
         comments |-> IF metrics.empty THEN 0 ELSE insights.comment_count,
         total_engagement |-> IF metrics.empty THEN 0
                              ELSE insights.like_count + insights.comment_count,
         none |-> FALSE]

\* get_post_insights(client, post): a one-row dataframe, or None.
get_post_insights(insights) ==
    LET metrics == insights.metrics
    IN  IF metrics.empty THEN NoInsights
        ELSE [reach |-> metrics.reach_count,
              impressions |-> metrics.impression_count,
              shares |-> SumSeq(metrics.share_nodes),
              likes |-> insights.like_count,
              comments |-> insights.comment_count,
              total_engagement |-> insights.like_count + insights.comment_count,
              none |-> FALSE]

\* pd.concat(objs): None objects are dropped; ValueError if nothing is left.
pd_concat(objs) ==
    LET kept == SelectSeq(objs, LAMBDA o : ~o.none)
    IN  IF kept = << >> THEN Raised("ValueError", "No objects to concatenate")
        ELSE Returned(kept)

\* insights.sum()[column]
ColumnSum(df, column) == SumSeq([i \in 1..Len(df) |-> df[i][column]])

\* calculate_aggregate_insights(insights, comment_pct): each column's sum
\* over len(insights), then the comments column times (1 - comment_pct).
calculate_aggregate_insights(df, pct_tenths) ==
    LET aggs == [c \in Columns |-> <<ColumnSum(df, c), Len(df)>>]
    IN  [aggs EXCEPT !["comments"] =
            <<aggs["comments"][1] * (10 - pct_tenths), aggs["comments"][2] * 10>>]

\* aggregate_insights["total_engagement"] / follower_count
Engagement(aggregate_insights, count) ==
    <<aggregate_insights["total_engagement"][1],
      aggregate_insights["total_engagement"][2] * count>>

ReturnedNone == [kind |-> "return", none |-> TRUE]

\* get_account_performance from `insights = [...]` on, given the responses.
get_account_performance(num_posts, responses, count) ==
    LET insights == [i \in 1..Len(responses) |-> get_post_insights(responses[i])]
        insights_df == pd_concat(insights)
    IN  IF insights_df.kind = "raise" THEN ReturnedNone
        ELSE LET aggregate_insights ==
                     calculate_aggregate_insights(insights_df.value, CommentPctTenths)
             IN  [kind |-> "return", none |-> FALSE,
                  posts |-> num_posts,
                  current_follower_count |-> count,
                  engagement |-> Engagement(aggregate_insights, count),
                  per_post_reach |-> aggregate_insights["reach"],
                  per_post_impressions |-> aggregate_insights["impressions"],
                  per_post_shares |-> aggregate_insights["shares"]]

(***************************************************************************)
(* SpecInsights: get_account_performance, one call, step by step.          *)
(***************************************************************************)
InitInsights ==
    /\ pc = "maybe_login"
    /\ PipelineLoginInit
    /\ IdleGiveaway
    /\ IdleInsights
    /\ result = NoResult

PerfLogin ==
    /\ pc = "maybe_login"
    /\ PipelineLogin
    /\ IF last'.outcome = "raised"
       THEN /\ pc' = "done"
            /\ result' = Raised("LoginError", "maybe_login")
       ELSE /\ pc' = "get_posts"
            /\ UNCHANGED result
    /\ UNCHANGED <<giveawayVars, insightVars>>

\* get_posts(client, username, num_posts) and the insight fetch of each post:
\* the platform returns at most num_posts posts.
PerfGetPosts ==
    /\ pc = "get_posts"
    /\ posts' \in SeqsUpTo(Insights, MaxPosts)
    /\ pc' = "aggregate"
    /\ UNCHANGED <<loginVars, giveawayVars, follower_count, result>>

PerfAggregate ==
    /\ pc = "aggregate"
    /\ \E count \in 0..MaxFollowers :
          LET r == get_account_performance(MaxPosts, posts, count)
          IN  /\ result' = r
              /\ follower_count' = IF r.none THEN follower_count ELSE count
    /\ pc' = "done"
    /\ UNCHANGED <<loginVars, giveawayVars, posts>>

NextInsights ==
    \/ PerfLogin
    \/ PerfGetPosts
    \/ PerfAggregate

SpecInsights == InitInsights /\ [][NextInsights]_vars

(***************************************************************************)
(* Properties.                                                             *)
(***************************************************************************)
Count(u, s) == Cardinality({i \in 1..Len(s) : s[i] = u})

\* Some message of `thread` satisfies P.
SomeMessage(thread, P(_)) ==
    \E i \in 1..Len(thread.messages) : P(thread.messages[i])

\* The threads whose counterparty (first user) is u.
ThreadsOf(u) ==
    {i \in 1..Len(threads) : threads[i].users # << >> /\ threads[i].users[1] = u}

OwnerMention(m) ==
    /\ m.reel_share.type = "mention"
    /\ m.reel_share.mentioned_user_id = user_id

OwnerMentionAfterStart(m) == OwnerMention(m) /\ m.timestamp > start_time

\* C1: get_mentioners returns a username only if that user's thread has a
\* "mention" of the account owner whose timestamp is after start_time; a
\* thread whose owner mentions are all at or before start_time contributes
\* nothing.
C1_MentionAfterStartTime ==
    pc = "done" =>
        \A u \in Range(mentioners) :
            \E i \in ThreadsOf(u) : SomeMessage(threads[i], OwnerMentionAfterStart)

\* C7: a reel_share whose type is not "mention" never puts its thread's
\* username in the mentioner list, even when its mentioned_user_id is the
\* owner: every returned username has a thread with a "mention"-type share.
C7_OnlyMentionType ==
    pc = "done" =>
        \A u \in Range(mentioners) :
            \E i \in ThreadsOf(u) :
                SomeMessage(threads[i], LAMBDA m : m.reel_share.type = "mention")

OwnerReaction(m) ==
    /\ m.reel_share.type = "reaction"
    /\ m.reel_share.mentioned_user_id = user_id

C7_Witness ==
    /\ pc = "done"
    /\ mentioners = << >>
    /\ \E i \in 1..Len(threads) :
          /\ threads[i].users # << >>
          /\ threads[i].users[1] \in usernames
          /\ SomeMessage(threads[i], OwnerReaction)

\* C8: a thread without users never adds a username and never makes
\* get_mentioners fail; only a thread's first user is tested against the
\* candidates and reported.
C8_UserlessAndFirstUser ==
    pc = "done" =>
        /\ result.kind = "return"
        /\ Range(mentioners) \subseteq usernames
        /\ \A u \in Users : Count(u, mentioners) <= Cardinality(ThreadsOf(u))

C8_Witness ==
    /\ pc = "done"
    /\ mentioners = << >>
    /\ \E i \in 1..Len(threads) :
          /\ threads[i].users = << >>
          /\ SomeMessage(threads[i], OwnerMentionAfterStart)

\* C2: create_giveaway_list returns each username of followers /\ likers
\* exactly 1 + [it commented] + [it mentioned] times and nobody else, so at
\* most three times, and |base| + |commented| + |mentioned| entries in all.
C2_AdditiveWeighting ==
    pc = "done" =>
        LET base == Range(followers) \cap Range(likers)
            commented == Range(commenters) \cap base
            mentioned == Range(mentioners) \cap base
        IN  /\ \A u \in Users :
                 Count(u, full_list) =
                     IF u \in base
                     THEN 1 + (IF u \in Range(commenters) THEN 1 ELSE 0)
                            + (IF u \in Range(mentioners) THEN 1 ELSE 0)
                     ELSE 0
            /\ Range(full_list) \subseteq base
            /\ Len(full_list) =
                   Cardinality(base) + Cardinality(commented) + Cardinality(mentioned)
            /\ \A u \in Users : Count(u, full_list) <= 3

C2_Witness ==
    /\ pc = "done"
    /\ \E u \in Users :
          /\ Count(u, full_list) = 3
          /\ Count(u, commenters) = 2
    /\ ~(Range(mentioners) \subseteq Range(followers))

\* C3: with an empty entry list main fails at the winner draw and returns
\* no result; a result main returns names a winner from the entry list.
C3_EmptyEntriesFail ==
    pc = "done" =>
        /\ result.kind = "return" =>
               /\ full_list # << >>
               /\ result.value.winner \in Range(full_list)
        /\ Range(followers) \cap Range(likers) = {} => result.kind = "raise"
        /\ (last.outcome = "returned" /\ Range(followers) \cap Range(likers) = {})
               => result.type = "IndexError"

C3_Witness ==
    /\ pc = "done"
    /\ followers # << >>
    /\ likers = << >>
    /\ full_list = << >>
    /\ result.kind = "raise"
    /\ result.type = "IndexError"

LoginRequiredSignal(outcome) ==
    /\ outcome.kind = "raise"
    /\ outcome.type = "AssertionError"
    /\ outcome.msg = "Login required"

\* C4: only the "Login required" assertion becomes a not-logged-in status;
\* any other failure of the login check propagates out of maybe_login with
\* no login attempt and no prompt.
C4_OtherFailuresPropagate ==
    (last.outcome # "none" /\ last.check.kind = "raise"
        /\ ~LoginRequiredSignal(last.check))
    => /\ last.outcome = "raised"
       /\ last.status.kind = "raise"
       /\ ~last.login_called
       /\ ~last.password_prompt
       /\ ~last.code_prompt

C10_PromptAndStore ==
    last.outcome # "none" =>
        LET u == last.username
            before == EnvGet(last.env_before, EnvKey(u))
        IN  /\ last.password_prompt => ~Truthy(before)
            /\ (last.login_called /\ ~last.password_prompt)
                   => /\ Truthy(before)
                      /\ last.login_password = before
            /\ last.password_prompt
                   => EnvGet(environ, EnvKey(u)) = last.login_password
            /\ ~last.password_prompt => environ = last.env_before
            /\ \A v \in Accounts \ {u} :
                   EnvGet(environ, EnvKey(v)) = EnvGet(last.env_before, EnvKey(v))
            /\ last.login_called => last.password_of = u

\* C10 as stated: the above, and at most one password prompt per username
\* per process.
C10_AtMostOnePrompt ==
    /\ C10_PromptAndStore
    /\ \A u \in Accounts : Len(prompts[u]) <= 1

\* C10 as amended: the above, and once a non-empty password was entered for
\* a username it is stored and that username is never prompted again; only
\* an empty answer is followed by another prompt.
C10_AtMostOneNonEmptyPrompt ==
    /\ C10_PromptAndStore
    /\ \A u \in Accounts :
          /\ \A i \in 1..(Len(prompts[u]) - 1) : prompts[u][i] = ""
          /\ prompts[u] # << >>
                 => EnvGet(environ, EnvKey(u)) = prompts[u][Len(prompts[u])]

C10_Witness ==
    /\ calls = 2
    /\ last.login_called
    /\ ~last.password_prompt
    /\ Len(prompts[last.username]) = 1
    /\ last.login_password = prompts[last.username][1]

RatEq(a, b) == a[1] * b[2] = b[1] * a[2]

\* The posts that enter the aggregation: those with non-empty metrics.
Aggregated == {i \in 1..Len(posts) : ~posts[i].metrics.empty}

\* The sum of f over the aggregated posts.
SumAggregated(f(_)) ==
    SumSeq([i \in 1..Len(posts) |-> IF i \in Aggregated THEN f(i) ELSE 0])

\* C5: engagement = (sum over the aggregated posts of likes plus comments
\* discounted by comment_pct) / number of aggregated posts / follower count.
C5_EngagementDiscountsComments ==
    (pc = "done" /\ result.kind = "return" /\ ~result.none) =>
        LET likes == SumAggregated(LAMBDA i : posts[i].like_count)
            comments == SumAggregated(LAMBDA i : posts[i].comment_count)
        IN  RatEq(result.engagement,
                  <<10 * likes + (10 - CommentPctTenths) * comments,
                    10 * Cardinality(Aggregated) * follower_count>>)

\* C6: a post with empty metrics gives a null per-post result and is left
\* out of the sums and of the divisor; when no post has metrics the
\* function returns None and does not raise.
C6_EmptyMetricsExcluded ==
    pc = "done" =>
        /\ last.outcome = "returned" => result.kind = "return"
        /\ result.kind = "return" =>
               /\ \A i \in 1..Len(posts) :
                      get_post_insights(posts[i]).none <=> posts[i].metrics.empty
               /\ result.none <=> Aggregated = {}
               /\ ~result.none =>
                      /\ result.per_post_reach =
                             <<SumAggregated(LAMBDA i : posts[i].metrics.reach_count),
                               Cardinality(Aggregated)>>
                      /\ result.per_post_impressions =
                             <<SumAggregated(LAMBDA i : posts[i].metrics.impression_count),
                               Cardinality(Aggregated)>>
                      /\ result.per_post_shares =
                             <<SumAggregated(LAMBDA i : SumSeq(posts[i].metrics.share_nodes)),
                               Cardinality(Aggregated)>>
                      /\ result.engagement =
                             <<SumAggregated(LAMBDA i : posts[i].like_count
                                                  + posts[i].comment_count),
                               Cardinality(Aggregated) * follower_count>>

C6_Witness ==
    /\ pc = "done"
    /\ result.kind = "return"
    /\ ~result.none
    /\ Len(posts) = 2
    /\ posts[1].metrics.empty
    /\ ~posts[2].metrics.empty
    /\ posts[1].like_count > 0

====
